---- MODULE Spec2Model ----
(***************************************************************************)
(* Array primitives of DGL: the identifier-compaction map IdHashMap        *)
(* (src/array/cpu/array_utils.h), the coordinate-matrix sort COOSort_ and  *)
(* its inspection COOIsSorted (src/array/cpu/coo_sort.cc), and the         *)
(* sampling routines RandomEngine::Choice / RandomEngine::UniformChoice    *)
(* (src/random/cpu/choice.cc).                                             *)
(*                                                                         *)
(* The three components share no state.  Each has its own specification    *)
(* (SpecMap, SpecCoo, SpecChoice); a specification leaves the variables of *)
(* the other two components at their initial values.                       *)
(*                                                                         *)
(* C++ arrays are modelled as sequences: element i of an array is element  *)
(* i + 1 of the sequence.                                                  *)
(***************************************************************************)
EXTENDS Integers, Sequences, FiniteSets, TLC

VARIABLES
  \* ---- IdHashMap ----
  oldv2newv_,   \* the hashmap from old id to new id (a function)
  filter_,      \* the set of indices of the bits set in the filter bitmap
  ids_log,      \* history: every id passed to Update so far, in order
  map_ret,      \* the last IdHashMap call and what it returned
  \* ---- COOMatrix ----
  coo,          \* [row, col, data, has_data, row_sorted, col_sorted]
  coo_ret,      \* the last call on the matrix and what it returned
  \* ---- RandomEngine ----
  cache_,       \* the static cache of choice.cc: key -> selected set
  out,          \* the caller's out buffer after the last call
  call,         \* the last sampling call: arguments and what happened
  ncalls        \* number of sampling calls made so far

mapVars == <<oldv2newv_, filter_, ids_log, map_ret>>
cooVars == <<coo, coo_ret>>
choiceVars == <<cache_, out, call, ncalls>>
vars == <<oldv2newv_, filter_, ids_log, map_ret, coo, coo_ret,
          cache_, out, call, ncalls>>

Range(s) == {s[i] : i \in DOMAIN s}

(***************************************************************************)
(*                              IdHashMap                                  *)
(***************************************************************************)

\* Longest id array passed to one Update call.
MaxLen == 3
\* Total number of ids passed to Update over the life of one map.
MaxLog == 4

kFilterMask == 16777215

\* The ids the callers use: a negative id, small ids, and ids that share
\* their low 24 bits with another one (5 and 5 + 2^24, -1 and 2^24 - 1).
Ids == {-1, 5, 16777221, 16777215}
\* Ids that are looked up: Ids and an id that is never inserted.
Probes == Ids \cup {7}
Defaults == {-1, 99}

\* a & b on two's-complement integers, for b >= 0.  \div rounds down, so
\* a \div 2 is the arithmetic shift a >> 1 and a % 2 the lowest bit of a.
RECURSIVE BitAnd(_, _)
BitAnd(a, b) ==
  IF b = 0 THEN 0
  ELSE (a % 2) * (b % 2) + 2 * BitAnd(a \div 2, b \div 2)

EmptyMap == [k \in {} |-> 0]

\* phmap::flat_hash_map::size
Size(m) == Cardinality(DOMAIN m)

\* insert_or_assign instead of insert: an existing key is overwritten.
InsertOverwrite(m, k, v) == [x \in (DOMAIN m) \cup {k} |-> IF x = k THEN v ELSE m[x]]

\* phmap::flat_hash_map::insert: no insertion when the key already exists.
Insert(m, k, v) ==
  IF k \in DOMAIN m THEN m ELSE [x \in (DOMAIN m) \cup {k} |-> IF x = k THEN v ELSE m[x]]

\* One iteration of the loop of IdHashMap::Update on the pair <<map, filter>>.
UpdateOne(mf, id) ==
  <<Insert(mf[1], id, Size(mf[1])), mf[2] \cup {BitAnd(id, kFilterMask)}>>

\* IdHashMap::Update: the loop over ids[0 .. len), from the pair mf.
RECURSIVE UpdateLoop(_, _, _)
UpdateLoop(mf, ids, i) ==
  IF i > Len(ids) THEN mf ELSE UpdateLoop(UpdateOne(mf, ids[i]), ids, i + 1)

\* The filter test alone, without the probe of the table.
ContainsFilterOnly(m, f, id) == BitAnd(id, kFilterMask) \in f

\* IdHashMap::Contains
Contains(m, f, id) == BitAnd(id, kFilterMask) \in f /\ id \in DOMAIN m

\* IdHashMap::Map(IdType id, IdType default_val)
Map(m, f, id, default_val) ==
  IF BitAnd(id, kFilterMask) \in f
  THEN (IF id \notin DOMAIN m THEN default_val ELSE m[id])
  ELSE default_val

\* A slot of the array of Values() that no pair of the map wrote.
Unwritten == "unwritten"

\* IdHashMap::Values: a new array of size() slots; every pair of the map
\* writes its old id into the slot of its new id.
Values(m) ==
  [i \in 1..Size(m) |->
     IF \E k \in DOMAIN m : m[k] = i - 1
     THEN CHOOSE k \in DOMAIN m : m[k] = i - 1
     ELSE Unwritten]

IdArrays == UNION {[1..n -> Ids] : n \in 0..MaxLen}

MapInit ==
  /\ oldv2newv_ = EmptyMap
  /\ filter_ = {}
  /\ ids_log = <<>>
  /\ map_ret = [op |-> "ctor"]

\* update(ids)
Update ==
  \E ids \in IdArrays :
    /\ Len(ids_log) + Len(ids) <= MaxLog
    /\ LET mf == UpdateLoop(<<oldv2newv_, filter_>>, ids, 1)
       IN  /\ oldv2newv_' = mf[1]
           /\ filter_' = mf[2]
    /\ ids_log' = ids_log \o ids
    /\ map_ret' = [op |-> "update", ids |-> ids]

\* contains(id)
ContainsCall ==
  \E id \in Probes :
    /\ map_ret' = [op |-> "contains", id |-> id,
                   val |-> Contains(oldv2newv_, filter_, id)]
    /\ UNCHANGED <<oldv2newv_, filter_, ids_log>>

\* map(id, default)
MapCall ==
  \E id \in Probes, d \in Defaults :
    /\ map_ret' = [op |-> "map", id |-> id, default |-> d,
                   val |-> Map(oldv2newv_, filter_, id, d)]
    /\ UNCHANGED <<oldv2newv_, filter_, ids_log>>

\* values() and size()
ValuesCall ==
  /\ map_ret' = [op |-> "values", val |-> Values(oldv2newv_),
                 size |-> Size(oldv2newv_)]
  /\ UNCHANGED <<oldv2newv_, filter_, ids_log>>

(***************************************************************************)
(*                      COOMatrix: COOSort_, COOIsSorted                   *)
(***************************************************************************)

\* Largest number of entries (nnz) of a matrix.
MaxNnz == 3
\* Largest row index of an entry.
MaxRow == 1
\* The column indices of the entries.
ColVals == {0, 1}

\* The tuples std::sort compares and moves: <<row, col, data>>.
\* TupleRef::operator std::tuple: the entry at position i as a value.
TupleOf(m, i) == <<m.row[i], m.col[i], m.data[i]>>

\* An assignment that moves row and col but leaves data where it was.
AssignNoData(m, i, val) ==
  [m EXCEPT !.row[i] = val[1], !.col[i] = val[2]]

\* TupleRef::operator=(const std::tuple&): position i of all three arrays.
Assign(m, i, val) ==
  [m EXCEPT !.row[i] = val[1], !.col[i] = val[2], !.data[i] = val[3]]

\* A comparator that looks at the rows only.
LessRowOnly(a, b) == a[1] < b[1]

\* The comparator of the sort_column branch of COOSort_.
LessRowCol(a, b) == IF a[1] # b[1] THEN a[1] < b[1] ELSE a[2] < b[2]

\* The comparator of the other branch of COOSort_.
LessRow(a, b) == a[1] < b[1]

Less(sort_column, a, b) ==
  IF sort_column THEN LessRowCol(a, b) ELSE LessRow(a, b)

\* The values written back through the iterator, position by position.
RECURSIVE AssignAll(_, _, _)
AssignAll(m, vals, i) ==
  IF i > Len(vals) THEN m ELSE AssignAll(Assign(m, i, vals[i]), vals, i + 1)

\* The orders in which the positions of S can be visited.
RECURSIVE Arrangements(_)
Arrangements(S) ==
  IF S = {} THEN {<<>>}
  ELSE UNION {{<<x>> \o p : p \in Arrangements(S \ {x})} : x \in S}

\* std::sort over CooIterator: the entries are rearranged, each moved as a
\* whole tuple, into an order in which no later entry is less than an
\* earlier one.  The sort is not stable: every such order is a result.
StdSort(m, sort_column) ==
  LET n == Len(m.row)
      ordered(p) ==
        \A i, j \in 1..n :
          i < j => ~Less(sort_column, TupleOf(m, p[j]), TupleOf(m, p[i]))
  IN  {AssignAll(m, [i \in 1..n |-> TupleOf(m, p[i])], 1) :
         p \in {q \in Arrangements(1..n) : ordered(q)}}

\* aten::Range(0, nnz)
RangeArray(n) == [i \in 1..n |-> i - 1]

\* Both flags set whatever was sorted.
SortedFlagsBoth(sort_column) == <<TRUE, TRUE>>

\* The flags COOSort_ stores: <<row_sorted, col_sorted>>.
SortedFlags(sort_column) == <<TRUE, sort_column>>

\* The loop of COOIsSorted from position i (an index of the C++ arrays),
\* with the current values of row_sorted and col_sorted.
RECURSIVE IsSortedLoop(_, _, _, _, _)
IsSortedLoop(row, col, i, row_sorted, col_sorted) ==
  IF row_sorted /\ i < Len(row)
  THEN IsSortedLoop(row, col, i + 1,
                    row[i] <= row[i + 1],
                    col_sorted /\ (row[i] < row[i + 1] \/ col[i] <= col[i + 1]))
  ELSE <<row_sorted, col_sorted>>

\* COOIsSorted without the final test of row_sorted.
COOIsSortedLoopOnly(row, col) == IsSortedLoop(row, col, 1, TRUE, TRUE)

\* COOIsSorted: the pair <<row_sorted, col_sorted>>.
COOIsSorted(row, col) ==
  LET r == IsSortedLoop(row, col, 1, TRUE, TRUE)
  IN  IF ~r[1] THEN <<r[1], FALSE>> ELSE r

\* The payload array a caller's matrix comes with: any distinct numbers,
\* here n - 1 down to 0.
PayloadArrays(n) == {[i \in 1..n |-> n - i]}

\* The matrices handed to the sorter: any rows and columns, with or without
\* a payload array, the flags as COOMatrix constructs them.
Matrices ==
  UNION {
    {[row |-> r, col |-> c, data |-> d, has_data |-> TRUE,
      row_sorted |-> FALSE, col_sorted |-> FALSE] :
        r \in [1..n -> 0..MaxRow], c \in [1..n -> ColVals], d \in PayloadArrays(n)}
    \cup
    {[row |-> r, col |-> c, data |-> <<>>, has_data |-> FALSE,
      row_sorted |-> FALSE, col_sorted |-> FALSE] :
        r \in [1..n -> 0..MaxRow], c \in [1..n -> ColVals]}
    : n \in 0..MaxNnz}

CooInit ==
  /\ coo \in Matrices
  /\ coo_ret = [op |-> "init"]

\* sort(matrix, alsoSortColumns)
COOSort ==
  \E sort_column \in BOOLEAN :
    LET withData ==
          IF ~coo.has_data
          THEN [coo EXCEPT !.data = RangeArray(Len(coo.row)), !.has_data = TRUE]
          ELSE coo
    IN  \E sorted \in StdSort(withData, sort_column) :
          /\ coo' = [sorted EXCEPT !.row_sorted = SortedFlags(sort_column)[1],
                                   !.col_sorted = SortedFlags(sort_column)[2]]
          /\ coo_ret' = [op |-> "sort", sort_column |-> sort_column,
                          had_data |-> coo.has_data]

\* isSorted(matrix)
COOIsSortedCall ==
  /\ coo_ret' = [op |-> "isSorted", val |-> COOIsSorted(coo.row, coo.col)]
  /\ UNCHANGED coo

(***************************************************************************)
(*            RandomEngine::UniformChoice, RandomEngine::Choice            *)
(***************************************************************************)

\* Largest sample count num of a call.
MaxNum == 2
\* Largest population of the calls that enumerate every population size.
MaxPop == 2
\* Number of sampling calls in one run.
MaxCalls == 2

\* <<num, population>> of the calls with a population of ten times num or
\* more, the ones that take the hash-set branch when replace is false.
LargeArgs == {<<1, 20>>, <<1, 2001>>}
UniformArgs == {<<n, p>> : n \in 0..MaxNum, p \in 0..MaxPop} \cup LargeArgs

\* What the caller's out buffer holds in every slot before a call.
OutFill == {5, 105}

\* The values RandInt(n) returns here: the draws below MaxPop and the
\* largest one, n - 1 (every value of [0, n) when n <= MaxPop).
RandIntVals(n) == {k \in 0..(n - 1) : k < MaxPop \/ k = n - 1}

DigitChar == <<"0", "1", "2", "3", "4", "5", "6", "7", "8", "9">>

RECURSIVE Digits(_)
Digits(n) ==
  IF n < 10 THEN DigitChar[n + 1] ELSE Digits(n \div 10) \o DigitChar[(n % 10) + 1]

\* std::to_string of an integer: its decimal digits, "-" first if negative.
to_string(n) == IF n < 0 THEN "-" \o Digits(-n) ELSE Digits(n)

\* std::to_string(bool): the bool is promoted to int.
to_string_bool(b) == IF b THEN to_string(1) ELSE to_string(0)

\* hash_key of UniformChoice: the four strings, one after the other.
hash_key(num, population, replace, out0) ==
  to_string(num) \o to_string(population) \o to_string_bool(replace)
    \o to_string(out0)

\* hash_key1 = to_string(std::hash<std::string>()(hash_key)).  Equal strings
\* have equal hashes; std::hash is taken to have no collisions, which would
\* only make more keys equal.
hash_key1(key) == key

\* A test that lets every count through.
CheckPasses(a, b) == TRUE

\* CHECK_LE(a, b): the call fails when it does not hold.
CHECK_LE(a, b) == a <= b

\* The orders in which the elements of a set are iterated.
Orders(S) ==
  {s \in [1..Cardinality(S) -> S] : \A i, j \in DOMAIN s : i # j => s[i] # s[j]}

\* std::copy(selected.begin(), selected.end(), out): the elements in the
\* order ord over the first slots of the buffer (past its end when there
\* are more elements than slots).
CopyTo(buf, ord) ==
  [i \in 1..(IF Len(ord) > Len(buf) THEN Len(ord) ELSE Len(buf)) |->
     IF i <= Len(ord) THEN ord[i] ELSE buf[i]]

\* The sets the loop "while (selected.size() < num) insert(RandInt(population))"
\* ends with.
SelectedSets(num, population) ==
  {S \in SUBSET RandIntVals(population) : Cardinality(S) = num}

\* The reservoir loop from candidate i on, over the set outs of the buffers
\* that the draws made so far can have produced.
RECURSIVE Reservoir(_, _, _, _)
Reservoir(outs, i, num, population) ==
  IF i >= population THEN outs
  ELSE Reservoir(
         UNION {{IF j < num THEN [o EXCEPT ![j + 1] = i] ELSE o : j \in RandIntVals(i + 1)}
                  : o \in outs},
         i + 1, num, population)

\* The buffers the replace branch can produce: out[i] = RandInt(population).
ReplaceOuts(num, population) == [1..num -> RandIntVals(population)]

\* The sequences of k values that k calls of TreeSampler::Draw can return
\* over the indices all, of which remaining have not been removed: a draw
\* returns an index that is left (every weight is positive), and without
\* replacement removes it.  With nothing left the result is unspecified.
RECURSIVE TreeDraws(_, _, _, _)
TreeDraws(remaining, all, replace, k) ==
  IF k = 0 THEN {<<>>}
  ELSE LET from == IF remaining # {} THEN remaining
                   ELSE IF all # {} THEN all ELSE {0}
       IN  UNION {{<<c>> \o t :
                     t \in TreeDraws(IF replace THEN remaining ELSE remaining \ {c},
                                     all, replace, k - 1)}
                    : c \in from}

\* std::iota(out, out + num, 0)
Iota(num) == [i \in 1..num |-> i - 1]

NoCall == [op |-> "none", num |-> 0, population |-> 0, replace |-> FALSE,
           status |-> "ok", branch |-> "none", hit |-> FALSE, drew |-> FALSE,
           sampler |-> FALSE, written |-> 0, prior |-> <<>>]

ChoiceInit ==
  /\ cache_ = [k \in {} |-> {}]
  /\ out = <<>>
  /\ call = NoCall
  /\ ncalls = 0

\* The record of a call that failed its precondition: nothing was done.
Failed(op, num, population, replace, prior) ==
  [op |-> op, num |-> num, population |-> population, replace |-> replace,
   status |-> "invalid-argument", branch |-> "none", hit |-> FALSE,
   drew |-> FALSE, sampler |-> FALSE, written |-> 0, prior |-> prior]

\* The record of a call that returned.
Returned(op, num, population, replace, prior, branch, hit, drew, sampler, written) ==
  [op |-> op, num |-> num, population |-> population, replace |-> replace,
   status |-> "ok", branch |-> branch, hit |-> hit, drew |-> drew,
   sampler |-> sampler, written |-> written, prior |-> prior]

\* What is read at *out: the first slot of the buffer, and anything when the
\* buffer has no slot.
FirstOf(buf) == IF Len(buf) > 0 THEN {buf[1]} ELSE OutFill

\* uniformChoice(num, population, out, replace).  The buffer has num slots,
\* each holding fill.
UniformChoice ==
  \E a \in UniformArgs, replace \in BOOLEAN, fill \in OutFill :
    LET num == a[1]
        population == a[2]
        prior == [i \in 1..num |-> fill]
    IN  /\ ncalls < MaxCalls
        /\ ncalls' = ncalls + 1
        /\ IF ~replace /\ ~CHECK_LE(num, population)
           THEN /\ call' = Failed("uniformChoice", num, population, replace, prior)
                /\ out' = prior
                /\ UNCHANGED cache_
           ELSE IF replace
           THEN IF num > 0 /\ RandIntVals(population) = {}
                THEN \* RandInt has no value to return: the first draw fails
                     /\ call' = Failed("uniformChoice", num, population, replace, prior)
                     /\ out' = prior
                     /\ UNCHANGED cache_
                ELSE /\ out' \in ReplaceOuts(num, population)
                     /\ call' = Returned("uniformChoice", num, population, replace,
                                         prior, "replace", FALSE, num > 0, FALSE, num)
                     /\ UNCHANGED cache_
           ELSE IF num < population \div 10
           THEN \E out0 \in FirstOf(prior) :
                  LET key == hash_key1(hash_key(num, population, replace, out0))
                  IN  IF key \notin DOMAIN cache_
                      THEN \E selected \in SelectedSets(num, population) :
                             /\ cache_' = [k \in (DOMAIN cache_) \cup {key} |->
                                             IF k = key THEN selected ELSE cache_[k]]
                             /\ \E ord \in Orders(selected) : out' = CopyTo(prior, ord)
                             /\ call' = Returned("uniformChoice", num, population,
                                                 replace, prior, "hash", FALSE, num > 0,
                                                 FALSE, Cardinality(selected))
                      ELSE LET selected == cache_[key]
                           IN  /\ \E ord \in Orders(selected) : out' = CopyTo(prior, ord)
                               /\ call' = Returned("uniformChoice", num, population,
                                                   replace, prior, "hash", TRUE, FALSE,
                                                   FALSE, Cardinality(selected))
                               /\ UNCHANGED cache_
           ELSE /\ out' \in Reservoir({Iota(num)}, num, num, population)
                /\ call' = Returned("uniformChoice", num, population, replace,
                                    prior, "reservoir", FALSE, num < population,
                                    FALSE, num)
                /\ UNCHANGED cache_

\* What the out buffer of a weighted call holds in every slot.
ChoiceFill == CHOOSE f \in OutFill : \A g \in OutFill : f >= g

\* choice(num, prob, out, replace) with N = prob->shape[0] positive weights.
Choice ==
  \E num \in 0..MaxNum, N \in 0..MaxPop, replace \in BOOLEAN :
    LET prior == [i \in 1..num |-> ChoiceFill]
    IN  /\ ncalls < MaxCalls
        /\ ncalls' = ncalls + 1
        /\ UNCHANGED cache_
        /\ IF ~replace /\ ~CHECK_LE(num, N)
           THEN /\ call' = Failed("choice", num, N, replace, prior)
                /\ out' = prior
           ELSE \* the iota of the num == N case is overwritten by the draws
                LET filled == IF num = N /\ ~replace THEN Iota(num) ELSE prior
                IN  /\ \E draws \in TreeDraws(0..(N - 1), 0..(N - 1), replace, num) :
                         out' = CopyTo(filled, draws)
                    /\ call' = Returned("choice", num, N, replace, prior, "tree",
                                        FALSE, num > 0, TRUE, num)

(***************************************************************************)
(*                            Specifications                               *)
(***************************************************************************)

\* A component nobody calls: its variables keep these values.
MapIdle ==
  /\ oldv2newv_ = EmptyMap
  /\ filter_ = {}
  /\ ids_log = <<>>
  /\ map_ret = [op |-> "ctor"]

CooIdle ==
  /\ coo = [row |-> <<>>, col |-> <<>>, data |-> <<>>, has_data |-> FALSE,
            row_sorted |-> FALSE, col_sorted |-> FALSE]
  /\ coo_ret = [op |-> "init"]

InitMap == MapInit /\ CooIdle /\ ChoiceInit

NextMap ==
  \/ Update /\ UNCHANGED <<cooVars, choiceVars>>
  \/ ContainsCall /\ UNCHANGED <<cooVars, choiceVars>>
  \/ MapCall /\ UNCHANGED <<cooVars, choiceVars>>
  \/ ValuesCall /\ UNCHANGED <<cooVars, choiceVars>>

SpecMap == InitMap /\ [][NextMap]_vars

InitCoo == MapIdle /\ CooInit /\ ChoiceInit

NextCoo ==
  \/ COOSort /\ UNCHANGED <<mapVars, choiceVars>>
  \/ COOIsSortedCall /\ UNCHANGED <<mapVars, choiceVars>>

SpecCoo == InitCoo /\ [][NextCoo]_vars

InitChoice == MapIdle /\ CooIdle /\ ChoiceInit

NextChoice ==
  \/ UniformChoice /\ UNCHANGED <<mapVars, cooVars>>
  \/ Choice /\ UNCHANGED <<mapVars, cooVars>>

SpecChoice == InitChoice /\ [][NextChoice]_vars

(***************************************************************************)
(*                        Properties of IdHashMap                          *)
(***************************************************************************)

Inserted == Range(ids_log)

\* Position in ids_log of the first appearance of x.
FirstAt(x) ==
  CHOOSE i \in 1..Len(ids_log) :
    ids_log[i] = x /\ \A j \in 1..(i - 1) : ids_log[j] # x

\* Number of distinct ids that first appear before x does.
FirstSeenRank(x) == Cardinality({y \in Inserted : FirstAt(y) < FirstAt(x)})

\* C1: after any sequence of update calls, size() and the length of values()
\* are the number of distinct ids inserted, map(x, -1) of an inserted id x is
\* the rank of its first appearance among the distinct ids of all inputs in
\* order, and map(values()[i], -1) = i for every i in [0, size()).
C1_FirstSeenOrder ==
  /\ Size(oldv2newv_) = Cardinality(Inserted)
  /\ Len(Values(oldv2newv_)) = Cardinality(Inserted)
  /\ \A x \in Inserted : Map(oldv2newv_, filter_, x, -1) = FirstSeenRank(x)
  /\ \A i \in 1..Size(oldv2newv_) :
       Map(oldv2newv_, filter_, Values(oldv2newv_)[i], -1) = i - 1

\* An update whose array holds a duplicate, an id of an earlier update and a
\* new id has run.
C1_Witness ==
  /\ map_ret.op = "update"
  /\ Len(ids_log) > Len(map_ret.ids)
  /\ Cardinality(Range(map_ret.ids)) < Len(map_ret.ids)
  /\ \E x \in Range(map_ret.ids) :
       x \in Range(SubSeq(ids_log, 1, Len(ids_log) - Len(map_ret.ids)))
  /\ \E x \in Range(map_ret.ids) :
       x \notin Range(SubSeq(ids_log, 1, Len(ids_log) - Len(map_ret.ids)))
  /\ Size(oldv2newv_) >= 2

\* What contains and map answer in the current state.
C7_Answers ==
  /\ \A id \in Probes :
       /\ Contains(oldv2newv_, filter_, id) <=> id \in Inserted
       /\ \A d \in Defaults :
            IF id \in Inserted
            THEN /\ id \in DOMAIN oldv2newv_
                 /\ Map(oldv2newv_, filter_, id, d) = oldv2newv_[id]
            ELSE Map(oldv2newv_, filter_, id, d) = d
  /\ \A x \in Inserted : BitAnd(x, kFilterMask) \in filter_

\* A contains or map call returns that answer and changes nothing.
C7_ReadOnly ==
  /\ map_ret'.op = "contains" =>
       /\ map_ret'.val = (map_ret'.id \in Inserted)
       /\ UNCHANGED <<oldv2newv_, filter_>>
  /\ map_ret'.op = "map" =>
       /\ map_ret'.val = (IF map_ret'.id \in Inserted
                          THEN oldv2newv_[map_ret'.id] ELSE map_ret'.default)
       /\ UNCHANGED <<oldv2newv_, filter_>>

\* C7: after any sequence of update calls, for every id (negative ids and
\* ids sharing their low 24 bits with an inserted id included) contains(id)
\* is true iff id was inserted, map(id, default) is the new id of an inserted
\* id and default otherwise, every inserted id has its filter bit set, and
\* contains/map leave the table and the filter unchanged.
C7_ContainsMapExact == [](C7_Answers) /\ [][C7_ReadOnly]_vars

\* contains answered false for an id that was never inserted but whose
\* filter bit is set by an inserted id, a negative id being in the table.
C7_Witness ==
  /\ map_ret.op = "contains"
  /\ map_ret.id \notin Inserted
  /\ BitAnd(map_ret.id, kFilterMask) \in filter_
  /\ map_ret.val = FALSE
  /\ -1 \in Inserted

(***************************************************************************)
(*                   Properties of COOSort_ and COOIsSorted                *)
(***************************************************************************)

RowsNonDecreasing(m) ==
  \A i, j \in 1..Len(m.row) : i < j => m.row[i] <= m.row[j]

\* Columns are non-decreasing within every run of equal rows.
ColsNonDecreasingInRuns(m) ==
  \A i, j \in 1..Len(m.row) :
    (i < j /\ \A k \in i..j : m.row[k] = m.row[i]) => m.col[i] <= m.col[j]

\* The matrix m with the payload a matrix without one is taken to have.
WithData(m) ==
  IF m.has_data THEN m ELSE [m EXCEPT !.data = RangeArray(Len(m.row))]

Triples(m) == {TupleOf(m, i) : i \in 1..Len(m.row)}
Count(m, t) == Cardinality({i \in 1..Len(m.row) : TupleOf(m, i) = t})

\* C2: after sort(matrix, true) isSorted(matrix) returns (true, true), after
\* sort(matrix, false) it returns rowSorted = true: rows are non-decreasing
\* and, with alsoSortColumns, columns are non-decreasing within equal rows.
C2_SortedAfterSort ==
  coo_ret.op = "sort" =>
    /\ COOIsSorted(coo.row, coo.col)[1]
    /\ RowsNonDecreasing(coo)
    /\ coo_ret.sort_column =>
         /\ COOIsSorted(coo.row, coo.col) = <<TRUE, TRUE>>
         /\ ColsNonDecreasingInRuns(coo)

\* sort(matrix, true) has moved the entries of a matrix of three entries or
\* more (its payload, 0, 1, ... before the sort, is in another order) and
\* left two entries of one row with different columns.
C2_Witness ==
  /\ coo_ret.op = "sort"
  /\ coo_ret.sort_column
  /\ ~coo_ret.had_data
  /\ Len(coo.row) >= 3
  /\ coo.data # RangeArray(Len(coo.row))
  /\ \E i, j \in 1..Len(coo.row) : i < j /\ coo.row[i] = coo.row[j] /\ coo.col[i] < coo.col[j]

\* What a sort call does to the triples of the matrix.
C3_Step ==
  coo_ret'.op = "sort" =>
    /\ Len(coo'.row) = Len(coo.row)
    /\ Len(coo'.col) = Len(coo.row)
    /\ Len(coo'.data) = Len(coo.row)
    /\ \A t \in Triples(coo') \cup Triples(WithData(coo)) :
         Count(coo', t) = Count(WithData(coo), t)
    /\ ~coo.has_data =>
         \A i \in 1..Len(coo'.row) :
           /\ coo'.data[i] \in 0..(Len(coo.row) - 1)
           /\ coo.row[coo'.data[i] + 1] = coo'.row[i]
           /\ coo.col[coo'.data[i] + 1] = coo'.col[i]

\* C3: sort applies one permutation to all three arrays: the multiset of
\* (row, col, payload) triples is the same after the sort as before, a
\* matrix without payload being taken to have payload 0, 1, ..., nnz-1 (so
\* that payload[i] is afterwards the position entry i had before).
C3_SamePermutation == [][C3_Step]_vars

\* A sort has moved the entries of a matrix that came without payload.
C3_Witness ==
  /\ coo_ret.op = "sort"
  /\ ~coo_ret.had_data
  /\ Len(coo.row) >= 3
  /\ coo.data # RangeArray(Len(coo.row))
  /\ \E i, j \in 1..Len(coo.row) : coo.row[i] # coo.row[j]

\* C8 as stated: after every sort call row_sorted is true iff the rows are
\* non-decreasing and col_sorted is true iff, additionally, the columns are
\* non-decreasing within each group of equal rows.
C8_FlagsExact ==
  coo_ret.op = "sort" =>
    /\ coo.row_sorted <=> RowsNonDecreasing(coo)
    /\ coo.col_sorted <=> (RowsNonDecreasing(coo) /\ ColsNonDecreasingInRuns(coo))

\* C8 amended: after every sort call row_sorted is true and the rows are
\* non-decreasing, col_sorted equals alsoSortColumns, and col_sorted being
\* true implies that the columns are non-decreasing within each group of
\* equal rows (col_sorted may be false when they happen to be in order).
C8_FlagsSound ==
  coo_ret.op = "sort" =>
    /\ coo.row_sorted /\ RowsNonDecreasing(coo)
    /\ coo.col_sorted = coo_ret.sort_column
    /\ coo.col_sorted => ColsNonDecreasingInRuns(coo)

\* sort(matrix, false) has left columns out of order within a row, and
\* col_sorted is false.
C8_Witness ==
  /\ coo_ret.op = "sort"
  /\ ~coo_ret.sort_column
  /\ coo.row_sorted
  /\ ~coo.col_sorted
  /\ ~ColsNonDecreasingInRuns(coo)
  /\ coo.data # RangeArray(Len(coo.row))

\* What isSorted has returned is what holds of the matrix.
C9_Answer ==
  coo_ret.op = "isSorted" =>
    /\ coo_ret.val[1] <=> RowsNonDecreasing(coo)
    /\ coo_ret.val[2] <=> (RowsNonDecreasing(coo) /\ ColsNonDecreasingInRuns(coo))
    /\ ~coo_ret.val[1] => ~coo_ret.val[2]

\* C9: isSorted(matrix) returns rowSorted = true iff the rows are
\* non-decreasing, and colSorted = true iff rowSorted is true and the columns
\* are non-decreasing within every maximal run of equal rows; colSorted is
\* false whenever rowSorted is false; the matrix is not mutated.
C9_IsSortedExact ==
  [](C9_Answer) /\ [][coo_ret'.op = "isSorted" => UNCHANGED coo]_vars

\* isSorted has answered (false, false) for a matrix whose rows are out of
\* order while its columns are in order throughout.
C9_Witness ==
  /\ coo_ret.op = "isSorted"
  /\ coo_ret.val = <<FALSE, FALSE>>
  /\ Len(coo.row) >= 2
  /\ \A i, j \in 1..Len(coo.col) : i < j => coo.col[i] <= coo.col[j]

(***************************************************************************)
(*                Properties of UniformChoice and Choice                   *)
(***************************************************************************)

\* C4: every uniformChoice(num, population, out, replace=false) call with
\* 0 <= num <= population, wherever it stands in a sequence of calls, writes
\* exactly num entries to out, pairwise distinct and each in [0, population).
C4_DistinctInRange ==
  (call.op = "uniformChoice" /\ ~call.replace /\ call.num <= call.population) =>
    /\ call.status = "ok"
    /\ call.written = call.num
    /\ Len(out) = call.num
    /\ \A i \in 1..Len(out) : out[i] \in 0..(call.population - 1)
    /\ \A i, j \in 1..Len(out) : i # j => out[i] # out[j]

\* C5: every uniformChoice call draws its result within the call and retains
\* no state afterwards: no sample is kept once a call is over, and no call
\* returns a sample set stored by an earlier call.
C5_NoRetainedSamples ==
  /\ \A k \in DOMAIN cache_ : cache_[k] = {}
  /\ call.op = "uniformChoice" => ~call.hit

\* C6: weighted choice(num, prob, out, replace=false) with num = N returns
\* the identity permutation, out[i] = i, and no draw of the tree sampler is
\* made for that call.
C6_IdentityWithoutSampler ==
  (call.op = "choice" /\ ~call.replace /\ call.num = call.population
     /\ call.status = "ok") =>
    /\ out = Iota(call.num)
    /\ ~call.drew

\* What a call with replace = false and num above the population does.
C10_Step ==
  (call'.op \in {"uniformChoice", "choice"} /\ ncalls' # ncalls
     /\ ~call'.replace /\ call'.num > call'.population) =>
    /\ call'.status = "invalid-argument"
    /\ out' = call'.prior
    /\ cache_' = cache_
    /\ ~call'.drew
    /\ ~call'.sampler
    /\ call'.written = 0

\* C10: uniformChoice(num, population, out, replace=false) with
\* num > population and weighted choice(num, prob, out, replace=false) with
\* num > N fail with an invalid-argument error before any mutation: out is
\* unchanged, no random draw is made, no sampler state is created or changed.
C10_FailsBeforeMutation == [][C10_Step]_vars

\* A uniformChoice call with num > population has failed while the cache
\* held a sample set, and the buffer still holds what the caller put there.
C10_Witness ==
  /\ call.op = "uniformChoice"
  /\ ~call.replace
  /\ call.num > call.population
  /\ call.status = "invalid-argument"
  /\ DOMAIN cache_ # {}
  /\ Len(out) = call.num /\ out = call.prior

====
